---- MODULE Spec2Model ----
(***************************************************************************)
(* csbufferanalizer: clickstream lines are decoded one by one, a per-device *)
(* buffer is simulated against a watermark, failing lines go to the error   *)
(* log, and VOD / full-sequence entries are handed to a background worker   *)
(* over an unbuffered channel.                                              *)
(*                                                                          *)
(* Text is modelled as sequences of one-character strings, so that          *)
(* splitting, slicing and hex decoding are computed as the code does.       *)
(* Go slices s[lo:hi] are 0-based and half-open; an out-of-range slice      *)
(* panics.  Times are Unix seconds.  The event names of the table are       *)
(* written with ' where the source has a backquote.                         *)
(***************************************************************************)
EXTENDS Integers, Sequences, FiniteSets, TLC

(***************************************************************************)
(* Program constants                                                        *)
(***************************************************************************)
UTC_GPS_Diff == 315964800

BuffWaterMarkSize == 750

\* time.Time{}: the zero time (year 1), which precedes every decodable time.
ZeroTime == -1

\* time.Now(): the wall clock of the run (2016-11-04T00:00:00Z).
NowTime == 1478217600

\* The placeholder used when a line has no received token.
DefaultReceived ==
  <<"1","9","0","0","-","0","1","-","0","1"," ","0","0",":","0","0",":","0","0">>

NoErr == <<>>

ErrWrongFormat == <<"Wrong line format">>

ErrUnknownCode == <<"Unknown Clickstream Code">>

ErrParserPanic == <<"Parser time exception">>

ErrWrongDate(t) == <<"Wrong date: ", t>>

(***************************************************************************)
(* Bounds of the model                                                      *)
(***************************************************************************)
MaxLines == 2

\* The longest package list the output stage is started from.
MaxPkgs == 3

(***************************************************************************)
(* Text helpers                                                             *)
(***************************************************************************)
\* s[lo:hi] is legal in Go iff 0 <= lo <= hi <= len(s).
SliceOK(s, lo, hi) == 0 <= lo /\ lo <= hi /\ hi <= Len(s)

Slice(s, lo, hi) == SubSeq(s, lo + 1, hi)

\* strings.LastIndex(s, c) for a one-character c: 0-based, -1 when absent.
LastIndex(s, c) ==
  LET hits == {i \in 1..Len(s) : s[i] = c}
  IN  IF hits = {} THEN -1 ELSE (CHOOSE i \in hits : \A j \in hits : j <= i) - 1

\* strings.Split(line, " ")
Split(line) ==
  LET sp  == {i \in 1..Len(line) : line[i] = " "}
      n   == Cardinality(sp)
      bnd == [k \in 0..(n + 1) |->
                IF k = 0 THEN 0
                ELSE IF k = n + 1 THEN Len(line) + 1
                ELSE CHOOSE i \in sp : Cardinality({j \in sp : j < i}) = k - 1]
  IN  [k \in 1..(n + 1) |-> SubSeq(line, bnd[k - 1] + 1, bnd[k] - 1)]

HexDigits ==
  {"0","1","2","3","4","5","6","7","8","9",
   "a","b","c","d","e","f","A","B","C","D","E","F"}

HexVal(c) ==
  CASE c = "0" -> 0  [] c = "1" -> 1  [] c = "2" -> 2  [] c = "3" -> 3
    [] c = "4" -> 4  [] c = "5" -> 5  [] c = "6" -> 6  [] c = "7" -> 7
    [] c = "8" -> 8  [] c = "9" -> 9
    [] c \in {"a","A"} -> 10 [] c \in {"b","B"} -> 11 [] c \in {"c","C"} -> 12
    [] c \in {"d","D"} -> 13 [] c \in {"e","E"} -> 14 [] c \in {"f","F"} -> 15

AllHex(s) == \A i \in 1..Len(s) : s[i] \in HexDigits

RECURSIVE HexNumber(_)
HexNumber(s) ==
  IF s = <<>> THEN 0
  ELSE 16 * HexNumber(SubSeq(s, 1, Len(s) - 1)) + HexVal(s[Len(s)])

\* strconv.ParseInt(s, 16, 64): an optional sign, then one or more hex digits.
ParseIntOK(s) ==
  LET body == IF s # <<>> /\ s[1] \in {"+", "-"} THEN Tail(s) ELSE s
  IN  body # <<>> /\ AllHex(body)

ParseInt(s) ==
  IF s[1] = "-" THEN 0 - HexNumber(Tail(s))
  ELSE IF s[1] = "+" THEN HexNumber(Tail(s))
  ELSE HexNumber(s)

convertToTime(timestampS) ==
  IF ParseIntOK(timestampS) THEN ParseInt(timestampS) + UTC_GPS_Diff ELSE ZeroTime

\* hex.DecodeString of a two-character string, as the byte it yields
\* (-1 when the string is not hex, where convertToString returns "").
convertToString(str) ==
  IF Len(str) = 2 /\ AllHex(str) THEN 16 * HexVal(str[1]) + HexVal(str[2]) ELSE -1

\* The byte of "v": the comparison made with the wrong letter case.
AsciiLowerV == 86 + 32

\* The byte of the string literal "V".
AsciiV == 86

(***************************************************************************)
(* The event table                                                          *)
(***************************************************************************)
Cmd(c, n, d) == [cmd |-> c, name |-> n, diagnostic |-> d]

commandsList ==
  << Cmd(<<"4","1">>, "'A'Ad Display", FALSE),
     Cmd(<<"4","2">>, "'B'Button Config", TRUE),
     Cmd(<<"4","3">>, "'C'Channel Change (verbose)", FALSE),
     Cmd(<<"6","3">>, "'c'Channel Change (brief)", FALSE),
     Cmd(<<"4","5">>, "'E'Program Event", FALSE),
     Cmd(<<"4","6">>, "'F'Favorite", FALSE),
     Cmd(<<"4","7">>, "'G'VOD Category", FALSE),
     Cmd(<<"4","8">>, "'H'Highlight", FALSE),
     Cmd(<<"4","9">>, "'I'Info Screen", FALSE),
     Cmd(<<"4","B">>, "'K'Key Press", FALSE),
     Cmd(<<"4","C">>, "'L'Lock", FALSE),
     Cmd(<<"4","D">>, "'M'Missing", FALSE),
     Cmd(<<"4","F">>, "'O'Option", FALSE),
     Cmd(<<"5","0">>, "'P'Pulse", FALSE),
     Cmd(<<"5","2">>, "'R'Reset", FALSE),
     Cmd(<<"5","3">>, "'S'State Change", FALSE),
     Cmd(<<"5","4">>, "'T'Turbo Key", FALSE),
     Cmd(<<"5","5">>, "'U'Unit Ident.", TRUE),
     Cmd(<<"5","6">>, "'V'Video Playback Session (non- OCAP)", FALSE),
     Cmd(<<"5","8">>, "'X'Status", TRUE),
     Cmd(<<"5","A">>, "'Z'Menu Config.", TRUE) >>

\* initEventNames: eventNames maps a code to its name,
\* diagnosticEvents holds the names flagged diagnostic.
eventNames ==
  [c \in {commandsList[i].cmd : i \in DOMAIN commandsList} |->
     commandsList[CHOOSE i \in DOMAIN commandsList :
                    /\ commandsList[i].cmd = c
                    /\ \A j \in DOMAIN commandsList :
                         commandsList[j].cmd = c => j <= i].name]

diagnosticEvents ==
  {commandsList[i].name : i \in {j \in DOMAIN commandsList : commandsList[j].diagnostic}}

\* diagnosticEvents keyed by the two-character code instead of the name.
isDiagnosticEventByCode(cmd) == cmd \in {"42", "55", "58", "5A"}

isDiagnosticEvent(cmd) == cmd \in diagnosticEvents

\* convertToLogName: [ok, name]
convertToLogName(cmd) ==
  IF cmd \in DOMAIN eventNames
  THEN [ok |-> TRUE, name |-> eventNames[cmd]]
  ELSE [ok |-> FALSE, name |-> ""]

EventLogEntry(timestamp, received, deviceId, eventcode, mso) ==
  [timestamp |-> timestamp, received |-> received, deviceId |-> deviceId,
   eventcode |-> eventcode, mso |-> mso]

\* EventLogEntry{}
NoEntry == EventLogEntry(ZeroTime, <<>>, <<>>, "", <<>>)

\* checkAndLogForVodActivity: [panic, ok, entry]; panic when a slice of the
\* click string is out of range.
checkAndLogForVodActivity(eventCode, timestamp, received, deviceId, clickString, mso) ==
  LET Yes(code) == [panic |-> FALSE, ok |-> TRUE,
                    entry |-> EventLogEntry(timestamp, received, deviceId, code, mso)]
      No        == [panic |-> FALSE, ok |-> FALSE, entry |-> NoEntry]
      Panic     == [panic |-> TRUE, ok |-> FALSE, entry |-> NoEntry]
  IN  CASE eventCode = "'G'VOD Category" -> Yes(eventCode)
        [] eventCode = "'I'Info Screen" ->
             IF ~SliceOK(clickString, 10, 12) THEN Panic
             ELSE IF convertToString(Slice(clickString, 10, 12)) = AsciiV
                  THEN Yes(eventCode \o " / Type V")
                  ELSE No
        [] eventCode = "'V'Video Playback Session (non- OCAP)" ->
             IF ~SliceOK(clickString, 26, 28) THEN Panic
             ELSE IF convertToString(Slice(clickString, 26, 28)) = AsciiV
                  THEN Yes(eventCode \o " / Source V")
                  ELSE No
        [] OTHER -> No

\* msoName: [panic, mso]
msoName(fileName) ==
  LET lo == LastIndex(fileName, "_") + 1
      hi == LastIndex(fileName, ".")
  IN  IF SliceOK(fileName, lo, hi)
      THEN [panic |-> FALSE, mso |-> Slice(fileName, lo, hi)]
      ELSE [panic |-> TRUE, mso |-> <<>>]

\* The entry with a 0-based line number.
logErrorEventZeroBased(fileName, line, lineNo, err) ==
  [fileName |-> fileName, lineNo |-> lineNo - 1, line |-> line, err |-> err]

logErrorEvent(fileName, line, lineNo, err) ==
  [fileName |-> fileName, lineNo |-> lineNo, line |-> line, err |-> err]

Pack(timestamp, deviceId, eventCode) ==
  [timestamp |-> timestamp, deviceId |-> deviceId, eventCode |-> eventCode]

(***************************************************************************)
(* State                                                                    *)
(***************************************************************************)
VARIABLES
  vodLogOn, eventSequenceLogOnly, supress,   \* the flags of the run
  primetimeOnly, cummulativePrimetimeOnly,
  tzOffset,       \* time.Local, as seconds east of UTC
  pc,             \* where main is
  totalEvents,    \* lines of the files already finished
  fileName, mso, lineNo,                     \* locals of the file loop's body
  line, timestamp, deviceId, eventSize, eventCode, err,
                  \* locals of the line loop's body: the line and what
                  \* parseEvent returned for it
  sendBuf,        \* the entry parseEvent is blocked sending, if any
  chanClosed,     \* close(eventLogChan) has run
  wpc, logEntry,  \* the worker goroutine: its position, the entry it received
  vodLog,         \* the list the worker appends to
  bufferSize, packages, errorsLog,
  outputFile,     \* what printOutputFile wrote
  logRead, printedLog,   \* main has read vodLog for printing; what it printed
  epsOut, epsStats,      \* printEventsPerSecond: the files written, and
                         \* the max, avg, total it returned
  vodOut,                \* the files written by printVodLogEntries
  b0, observed,   \* history: the value drawn for each device, the events
                  \* that reached the buffer simulator
  pushed          \* history: the entries sent on eventLogChan, in order

flags    == <<vodLogOn, eventSequenceLogOnly, supress,
              primetimeOnly, cummulativePrimetimeOnly, tzOffset>>
fileVars == <<totalEvents, fileName, mso, lineNo>>
evVars   == <<line, timestamp, deviceId, eventSize, eventCode, err>>
chanVars == <<sendBuf, chanClosed, wpc, logEntry, vodLog, pushed>>
bufVars  == <<bufferSize, packages, b0, observed>>
outVars  == <<outputFile, logRead, printedLog, epsOut, epsStats, vodOut>>

vars == <<flags, pc, fileVars, evVars, chanVars, bufVars, errorsLog, outVars>>

(***************************************************************************)
(* parseEvent, up to the point where it sends on eventLogChan.              *)
(* A panic is recovered by the deferred function: timestamp becomes now,    *)
(* err the parser exception, and the other named results keep what was      *)
(* assigned before the panic.  send holds the entry to push, if any.        *)
(***************************************************************************)
Parsed(ts, dev, size, code, e, snd) ==
  [timestamp |-> ts, deviceId |-> dev, eventSize |-> size, eventCode |-> code,
   err |-> e, send |-> snd]

\* A deferred function that recovers and leaves err nil.
RecoveredNoErr(dev, size, code) == Parsed(NowTime, dev, size, code, NoErr, <<>>)

\* The deferred function of parseEvent after a panic.
Recovered(dev, size, code) == Parsed(NowTime, dev, size, code, ErrParserPanic, <<>>)

\* The size taken as the character count, as the first version of the
\* program did.
EventSizeChars(clickString) == Len(clickString)

\* eventSize = len(clickString) / 2
EventSizeOf(clickString) == Len(clickString) \div 2

\* Only the three-token format accepted.
TokenCountOnlyThree(n) == n = 3

\* switch len(tokens): 2 and 3 are the line formats, anything else is an error.
TokenCountOK(n) == n \in {2, 3}

\* Before in place of After.
WrongDateBefore(ts) == ts < NowTime

\* timestamp.After(time.Now())
WrongDate(ts) == ts > NowTime

\* parseEvent for given values of the flags vodLogOn and
\* eventSequenceLogOnly.
parseEventWith(l, m, vod, sequence) ==
  LET tokens == Split(l)
      n      == Len(tokens)
  IN
  IF ~TokenCountOK(n) THEN Parsed(NowTime, <<>>, 0, "", ErrWrongFormat, <<>>)
  ELSE
    LET dev         == tokens[IF n = 2 THEN 1 ELSE 2]
        clickString == tokens[IF n = 2 THEN 2 ELSE 3]
        received    == IF n = 3 THEN tokens[1] ELSE DefaultReceived
    IN
    IF ~SliceOK(clickString, 0, 2) THEN Recovered(dev, 0, "")
    ELSE
      LET nm == convertToLogName(Slice(clickString, 0, 2)) IN
      IF ~nm.ok THEN Parsed(ZeroTime, dev, 0, "", ErrUnknownCode, <<>>)
      ELSE IF ~SliceOK(clickString, 2, 10) THEN Recovered(dev, 0, nm.name)
      ELSE
        LET ts   == convertToTime(Slice(clickString, 2, 10))
            size == EventSizeOf(clickString)
            e    == IF WrongDate(ts) THEN ErrWrongDate(ts) ELSE NoErr
        IN
        IF vod
        THEN LET v == checkAndLogForVodActivity(nm.name, ts, received, dev,
                                                clickString, m)
             IN  IF v.panic
                 THEN Recovered(dev, size, nm.name)
                 ELSE Parsed(ts, dev, size, nm.name, e,
                             IF v.ok THEN <<v.entry>> ELSE <<>>)
        ELSE IF sequence
        THEN Parsed(ts, dev, size, nm.name, e,
                    <<EventLogEntry(ts, received, dev, nm.name, m)>>)
        ELSE Parsed(ts, dev, size, nm.name, e, <<>>)

parseEvent(l, m) == parseEventWith(l, m, vodLogOn, eventSequenceLogOnly)

(***************************************************************************)
(* The buffer simulator (main, lines 420-447)                               *)
(***************************************************************************)
\* bufferSize[deviceId]+eventSize > BuffWaterMarkSize
Emits(acc, size) == acc + size > BuffWaterMarkSize

\* The buffer restarted from 0 after a package, as the first version of
\* the program did.
NextBufferFromZero(acc, size) == IF acc + size > BuffWaterMarkSize THEN 0 ELSE acc + size

\* The size added with no restart after a package.
NextBufferNoReset(acc, size) == acc + size

\* the new bufferSize[deviceId]
NextBuffer(acc, size) == IF Emits(acc, size) THEN size ELSE acc + size

\* supress && isDiagnosticEvent(eventCode)
Suppressed(code) == supress /\ isDiagnosticEvent(code)

\* sort.Sort by timestamp: the orders it may leave a list in.  The sort is
\* not stable in general, so entries of equal timestamp may end in any
\* order; a list of at most 6 entries is sorted by insertion alone, which
\* keeps entries of equal timestamp in their order.
Sorted(list) ==
  LET n == Len(list)
      perms == {p \in [1..n -> 1..n] : \A i, j \in 1..n : i # j => p[i] # p[j]}
      inOrder == {q \in perms : \A i \in 1..(n - 1) :
                    list[q[i]].timestamp <= list[q[i + 1]].timestamp}
      stable == {q \in inOrder : \A i \in 1..(n - 1) :
                   list[q[i]].timestamp = list[q[i + 1]].timestamp => q[i] < q[i + 1]}
  IN  {[i \in 1..n |-> list[p[i]]] : p \in IF n <= 6 THEN stable ELSE inOrder}

(***************************************************************************)
(* The aggregator: per-second counts and files rotated by calendar date.    *)
(* A calendar date is the number of the local day, a file is named by its   *)
(* date.                                                                    *)
(***************************************************************************)
\* timestamp.Date()
Date(t) == (t + tzOffset) \div 86400

\* timestamp.Clock(), as the second of the local day
Clock(t) == (t + tzOffset) % 86400

\* timestamp.Hour()
Hour(t) == Clock(t) \div 3600

\* 2016-01-01T00:00:00Z
Jan2016 == 1451606400

\* time.Date(2016, 1, 1, hour, min, sec, 0, time.Local)
unifiedTimeStamp(t) == Jan2016 - tzOffset + Clock(t)

\* The comparison inverted.
validateFileDateInverted(current, t) == Date(t) # current

validateFileDate(current, t) == Date(t) = current

\* pkg.timestamp.Hour() >= 20.0 && pkg.timestamp.Hour() < 23.0
InPrimetime(t) == Hour(t) >= 20 /\ Hour(t) < 23

\* The branch of printEventsPerSecond's loop counts the package.
Counted(t) ==
  IF primetimeOnly THEN InPrimetime(t)
  ELSE IF cummulativePrimetimeOnly THEN InPrimetime(t)
  ELSE TRUE

\* The key it is counted under.
BucketKey(t) ==
  IF primetimeOnly THEN t
  ELSE IF cummulativePrimetimeOnly THEN unifiedTimeStamp(t)
  ELSE t

\* The map eventsPerSecond after the loop over the packages.
eventsPerSecond(pkgs) ==
  LET idx  == {i \in 1..Len(pkgs) : Counted(pkgs[i].timestamp)}
      keys == {BucketKey(pkgs[i].timestamp) : i \in idx}
  IN  [k \in keys |->
         Cardinality({i \in idx : BucketKey(pkgs[i].timestamp) = k})]

TimepointType(t, n) == [timestamp |-> t, numberOfEvents |-> n]

\* The map's entries sorted by timestamp (the keys are distinct).
orderedEventsPerSecond(pkgs) ==
  LET m == eventsPerSecond(pkgs)
      n == Cardinality(DOMAIN m)
  IN  [i \in 1..n |->
         LET k == CHOOSE k \in DOMAIN m :
                    Cardinality({x \in DOMAIN m : x < k}) = i - 1
         IN  TimepointType(k, m[k])]

\* No file written.
NoFiles == [created |-> <<>>, files |-> <<>>]

\* os.Create of the file of date d: the file is created or truncated.
Create(out, d) ==
  [created |-> Append(out.created, d),
   files   |-> [x \in DOMAIN out.files \cup {d} |->
                  IF x = d THEN <<>> ELSE out.files[x]]]

\* The writing loop: items left, the date of the open file, what was
\* written so far.
RECURSIVE WriteRotated(_, _, _)
WriteRotated(items, current, out) ==
  IF items = <<>> THEN out
  ELSE LET item   == Head(items)
           rotate == ~validateFileDate(current, item.timestamp)
           cur    == IF rotate THEN Date(item.timestamp) ELSE current
           opened == IF rotate THEN Create(out, cur) ELSE out
       IN  WriteRotated(Tail(items), cur,
                        [opened EXCEPT !.files[cur] = Append(@, item)])

\* The first file is named by the date of the first item.
RotatedFiles(items) ==
  IF items = <<>> THEN NoFiles
  ELSE LET first == Date(items[1].timestamp)
       IN  WriteRotated(items, first, Create(NoFiles, first))

NoStats == [max |-> TimepointType(ZeroTime, 0), avg |-> 0, total |-> 0]

RECURSIVE SumOfEvents(_)
SumOfEvents(points) ==
  IF points = <<>> THEN 0
  ELSE Head(points).numberOfEvents + SumOfEvents(Tail(points))

\* printEventsPerSecond: [out, stats]
printEventsPerSecond(pkgs) ==
  LET points == orderedEventsPerSecond(pkgs)
      n      == Len(points)
      top    == CHOOSE i \in 1..n :
                  /\ \A j \in 1..n : points[j].numberOfEvents <= points[i].numberOfEvents
                  /\ \A j \in 1..(i - 1) : points[j].numberOfEvents < points[i].numberOfEvents
  IN  IF n = 0 THEN [out |-> NoFiles, stats |-> NoStats]
      ELSE [out   |-> IF eventSequenceLogOnly THEN NoFiles ELSE RotatedFiles(points),
            stats |-> [max |-> points[top], avg |-> SumOfEvents(points) \div n,
                       total |-> n]]

(***************************************************************************)
(* Inputs: the file names of the run, the lines the scanner may return,     *)
(* the values rand.Intn(BuffWaterMarkSize) may draw.                        *)
(***************************************************************************)
DEV1 == <<"D","E","V","1">>

DEV2 == <<"D","E","V","2">>

\* 8 hex characters of a past time (1980) and of a time after now (2031)
TsPast == <<"0","0","1","1","2","2","3","3">>

TsFuture == <<"6","0","0","0","0","0","0","0">>

Pad(n) == [i \in 1..n |-> "0"]

\* "DEV1 only-one-token"
LineOddToken == <<"D","E","V","1"," ","o","n","l","y","-","o","n","e","-","t","o","k","e","n">>

\* "DEV1 47001122334455": VOD Category, 7 bytes
LineVodCategory == DEV1 \o <<" ">> \o <<"4","7">> \o TsPast \o <<"4","4","5","5">>

\* Ad Display, "41" + time + "00"
LineAd == DEV1 \o <<" ">> \o <<"4","1">> \o TsPast \o <<"0","0">>

\* Button Config (diagnostic), 5 bytes
LineDiag == DEV1 \o <<" ">> \o <<"4","2">> \o TsPast

\* Info Screen with byte 5 = "V", with byte 5 = "A" (and three tokens:
\* received, device, payload), and with no byte 5
LineInfoV == DEV2 \o <<" ">> \o <<"4","9">> \o TsPast \o <<"5","6">>

LineInfoA == <<"R","1"," ">> \o DEV2 \o <<" ">> \o <<"4","9">> \o TsPast \o <<"4","1">>

LineInfoShort == DEV2 \o <<" ">> \o <<"4","9">> \o TsPast

\* Video Playback Session with byte 13 = "V" and with byte 13 = "A"
LineVideoV == DEV2 \o <<" ">> \o <<"5","6">> \o TsPast \o Pad(16) \o <<"5","6">>

LineVideoA == DEV2 \o <<" ">> \o <<"5","6">> \o TsPast \o Pad(16) \o <<"4","1">>

\* VOD Category with a time after now
LineFuture == DEV1 \o <<" ">> \o <<"4","7">> \o TsFuture

\* four tokens, the last one a well-formed payload
LineFourTokens == <<"x"," ","R","1"," ">> \o DEV1 \o <<" ">> \o <<"4","B">> \o TsPast

\* empty payload, payload of 4 characters, unknown code
LineEmptyPayload == DEV1 \o <<" ">>

LineShortPayload == DEV1 \o <<" ">> \o <<"4","7","0","0">>

LineUnknownCode == DEV1 \o <<" ">> \o <<"9","9">> \o TsPast

\* Ad Display of 751 bytes
LineBig == DEV2 \o <<" ">> \o <<"4","1">> \o TsPast \o Pad(1492)

Lines ==
  { LineOddToken, LineVodCategory, LineAd, LineDiag, LineInfoV, LineInfoA,
    LineInfoShort, LineVideoV, LineVideoA, LineFuture, LineFourTokens,
    LineEmptyPayload, LineShortPayload, LineUnknownCode, LineBig }

\* "c_T.raw" and "click"
FileTacoma == <<"c","_","T",".","r","a","w">>

FileNoDot == <<"c","l","i","c","k">>

FileNames == {FileTacoma, FileNoDot}

RandDraws == {745, 749}

(***************************************************************************)
(* Init: main has started the worker and built the file list.  The locals   *)
(* of a loop body hold their zero values while the body is not running.     *)
(***************************************************************************)
NoFile == /\ fileName' = <<>>
          /\ mso' = <<>>
          /\ lineNo' = 0

NoEvent == /\ line' = <<>>
           /\ timestamp' = ZeroTime
           /\ deviceId' = <<>>
           /\ eventSize' = 0
           /\ eventCode' = ""
           /\ err' = NoErr

Init ==
  /\ vodLogOn \in BOOLEAN
  /\ eventSequenceLogOnly \in BOOLEAN
  /\ supress \in BOOLEAN
  /\ primetimeOnly = FALSE
  /\ cummulativePrimetimeOnly = FALSE
  /\ tzOffset = 0
  /\ pc = "files"
  /\ totalEvents = 0
  /\ fileName = <<>>
  /\ mso = <<>>
  /\ lineNo = 0
  /\ line = <<>>
  /\ timestamp = ZeroTime
  /\ deviceId = <<>>
  /\ eventSize = 0
  /\ eventCode = ""
  /\ err = NoErr
  /\ sendBuf = <<>>
  /\ chanClosed = FALSE
  /\ wpc = "recv"
  /\ logEntry = NoEntry
  /\ vodLog = <<>>
  /\ bufferSize = <<>>
  /\ packages = <<>>
  /\ errorsLog = <<>>
  /\ outputFile = <<>>
  /\ logRead = FALSE
  /\ printedLog = <<>>
  /\ epsOut = NoFiles
  /\ epsStats = NoStats
  /\ vodOut = NoFiles
  /\ b0 = <<>>
  /\ observed = <<>>
  /\ pushed = <<>>

(***************************************************************************)
(* main: the file loop                                                      *)
(***************************************************************************)
\* The next file of the list: os.Open, then msoName.  A file that cannot be
\* opened is skipped; msoName panics on a name it cannot slice, and nothing
\* in main recovers.
OpenFile ==
  /\ pc = "files"
  /\ \E f \in FileNames, opened \in BOOLEAN :
       /\ IF ~opened
          THEN UNCHANGED <<pc, fileName, mso, lineNo>>
          ELSE IF msoName(f).panic
          THEN /\ pc' = "crashed"
               /\ fileName' = f
               /\ UNCHANGED <<mso, lineNo>>
          ELSE /\ pc' = "lines"
               /\ fileName' = f
               /\ mso' = msoName(f).mso
               /\ lineNo' = 0
  /\ UNCHANGED <<flags, totalEvents, evVars, chanVars, bufVars, errorsLog, outVars>>

\* scanner.Scan() returned a line: lineNo++, parseEvent up to its send.
ScanLine ==
  /\ pc = "lines"
  /\ totalEvents + lineNo < MaxLines
  /\ \E l \in Lines :
       LET r == parseEvent(l, mso) IN
       /\ line' = l
       /\ lineNo' = lineNo + 1
       /\ timestamp' = r.timestamp
       /\ deviceId' = r.deviceId
       /\ eventSize' = r.eventSize
       /\ eventCode' = r.eventCode
       /\ err' = r.err
       /\ sendBuf' = r.send
       /\ pc' = IF r.send # <<>> THEN "send" ELSE "parsed"
  /\ UNCHANGED <<flags, totalEvents, fileName, mso, chanClosed, wpc,
                 logEntry, vodLog, pushed, bufVars, errorsLog, outVars>>

\* eventLogChan <- logEntry meets the worker's receive (the channel is
\* unbuffered), and parseEvent returns.
SendRecv ==
  /\ pc = "send"
  /\ wpc = "recv"
  /\ logEntry' = sendBuf[1]
  /\ wpc' = "append"
  /\ sendBuf' = <<>>
  /\ pushed' = Append(pushed, sendBuf[1])
  /\ pc' = "parsed"
  /\ UNCHANGED <<flags, fileVars, evVars, chanClosed, vodLog, bufVars, errorsLog, outVars>>

\* The buffer simulator on the parsed event, the device's buffer being acc
\* (main, lines 429-447).
Simulate(acc, first) ==
  LET set(v) == IF first THEN (deviceId :> v) @@ bufferSize
                ELSE [bufferSize EXCEPT ![deviceId] = v]
  IN  IF Suppressed(eventCode)
      THEN /\ bufferSize' = set(acc)
           /\ UNCHANGED <<packages, observed>>
      ELSE /\ bufferSize' = set(NextBuffer(acc, eventSize))
           /\ packages' = IF Emits(acc, eventSize)
                          THEN Append(packages, Pack(timestamp, deviceId, eventCode))
                          ELSE packages
           /\ observed' = Append(observed,
                            [deviceId |-> deviceId, eventSize |-> eventSize,
                             timestamp |-> timestamp, eventCode |-> eventCode])

\* The device's buffer drawn again at each event.
FirstOccurenceAlways(dev) == TRUE

\* if _, ok := bufferSize[deviceId]; !ok
FirstOccurence(dev) == dev \notin DOMAIN bufferSize

\* main, lines 417-448: the error log, or the device's entry (created with a
\* random value at its first event) and the buffer simulator.
Observe ==
  /\ pc = "parsed"
  /\ pc' = "lines"
  /\ IF err # NoErr
     THEN /\ errorsLog' = Append(errorsLog, logErrorEvent(fileName, line, lineNo, err))
          /\ UNCHANGED bufVars
     ELSE /\ UNCHANGED errorsLog
          /\ IF FirstOccurence(deviceId)
             THEN \E draw \in RandDraws :
                    /\ b0' = (deviceId :> draw) @@ b0
                    /\ Simulate(draw, TRUE)
             ELSE /\ UNCHANGED b0
                  /\ Simulate(bufferSize[deviceId], FALSE)
  /\ NoEvent
  /\ UNCHANGED <<flags, fileVars, chanVars, outVars>>

\* scanner.Scan() returned false: totalEvents += lineNo, file.Close().
EndOfFile ==
  /\ pc = "lines"
  /\ totalEvents' = totalEvents + lineNo
  /\ pc' = "files"
  /\ NoFile
  /\ UNCHANGED <<flags, evVars, chanVars, bufVars, errorsLog, outVars>>

\* The file list is exhausted: close(eventLogChan).
CloseChan ==
  /\ pc = "files"
  /\ chanClosed' = TRUE
  /\ pc' = "output"
  /\ UNCHANGED <<flags, fileVars, evVars, sendBuf, wpc, logEntry, vodLog,
                 pushed, bufVars, errorsLog, outVars>>

(***************************************************************************)
(* main: the output stage                                                   *)
(***************************************************************************)
\* printOutputFile sorts packages in place and writes them, unless the run
\* only logs the event sequence; then printEventsPerSecond(packages).
PrintOutput ==
  /\ pc = "output"
  /\ pc' = "printlog"
  /\ IF eventSequenceLogOnly
     THEN UNCHANGED <<packages, outputFile>>
     ELSE \E sorted \in Sorted(packages) :
            /\ packages' = sorted
            /\ outputFile' = sorted
  /\ epsOut' = printEventsPerSecond(packages').out
  /\ epsStats' = printEventsPerSecond(packages').stats
  /\ UNCHANGED <<flags, fileVars, evVars, chanVars, bufferSize, b0, observed,
                 errorsLog, logRead, printedLog, vodOut>>

\* printVodLogEntries(vodLog), else printAllEvents(vodLog): main reads the
\* list the worker appends to, sorts it in place and writes it, to files
\* rotated by date or to one file.
PrintLog ==
  /\ pc = "printlog"
  /\ pc' = "summary"
  /\ IF vodLogOn \/ eventSequenceLogOnly
     THEN \E sorted \in Sorted(vodLog) :
            /\ vodLog' = sorted
            /\ printedLog' = sorted
            /\ logRead' = TRUE
            /\ vodOut' = IF vodLogOn THEN RotatedFiles(sorted) ELSE NoFiles
     ELSE UNCHANGED <<vodLog, printedLog, logRead, vodOut>>
  /\ UNCHANGED <<flags, fileVars, evVars, sendBuf, chanClosed, wpc, logEntry,
                 pushed, bufVars, errorsLog, outputFile, epsOut, epsStats>>

\* printErrorLogs and the summary; main returns and the process exits.
PrintSummary ==
  /\ pc = "summary"
  /\ pc' = "done"
  /\ UNCHANGED <<flags, fileVars, evVars, chanVars, bufVars, errorsLog, outVars>>

(***************************************************************************)
(* The worker goroutine (main, lines 374-383); it runs while the process    *)
(* does.                                                                    *)
(***************************************************************************)
Running == pc \notin {"crashed", "done"}

\* vodLog = append(vodLog, logEntry)
WorkerAppend ==
  /\ Running
  /\ wpc = "append"
  /\ vodLog' = Append(vodLog, logEntry)
  /\ wpc' = "recv"
  /\ UNCHANGED <<flags, pc, fileVars, evVars, sendBuf, chanClosed, logEntry,
                 pushed, bufVars, errorsLog, outVars>>

\* The receive reports the channel closed: the worker returns.
WorkerExit ==
  /\ Running
  /\ wpc = "recv"
  /\ chanClosed
  /\ wpc' = "done"
  /\ UNCHANGED <<flags, pc, fileVars, evVars, sendBuf, chanClosed, logEntry,
                 vodLog, pushed, bufVars, errorsLog, outVars>>

Next ==
  \/ OpenFile
  \/ ScanLine
  \/ SendRecv
  \/ Observe
  \/ EndOfFile
  \/ CloseChan
  \/ PrintOutput
  \/ PrintLog
  \/ PrintSummary
  \/ WorkerAppend
  \/ WorkerExit

Spec == Init /\ [][Next]_vars

(***************************************************************************)
(* The output stage on its own: main has scanned one file of n VOD Category *)
(* events of device 1, each of 751 bytes (so that each emitted a package),  *)
(* at times of several days; the channel is closed and the worker has       *)
(* appended every entry and returned.  All the flags of the output stage    *)
(* and two time zones are covered.                                          *)
(***************************************************************************)
\* 2016-07-18T00:00:00Z
Day0 == 17000 * 86400

\* 20:00:00, 22:59:59 and 23:00:00 UTC of that day; 01:00:00 and 20:00:00
\* UTC of the next day (01:00 UTC is 20:00 of the day before at UTC-5).
EventTimes ==
  {Day0 + 72000, Day0 + 82799, Day0 + 82800, Day0 + 86400 + 3600, Day0 + 86400 + 72000}

\* UTC and UTC-5
TimeZones == {0, 0 - 18000}

VodCategory == "'G'VOD Category"

InitOutput ==
  /\ vodLogOn \in BOOLEAN
  /\ eventSequenceLogOnly \in BOOLEAN
  /\ supress = FALSE
  /\ primetimeOnly \in BOOLEAN
  /\ cummulativePrimetimeOnly \in BOOLEAN
  /\ tzOffset \in TimeZones
  /\ pc = "output"
  /\ fileName = <<>>
  /\ mso = <<>>
  /\ lineNo = 0
  /\ line = <<>>
  /\ timestamp = ZeroTime
  /\ deviceId = <<>>
  /\ eventSize = 0
  /\ eventCode = ""
  /\ err = NoErr
  /\ sendBuf = <<>>
  /\ chanClosed = TRUE
  /\ wpc = "done"
  /\ errorsLog = <<>>
  /\ outputFile = <<>>
  /\ logRead = FALSE
  /\ printedLog = <<>>
  /\ epsOut = NoFiles
  /\ epsStats = NoStats
  /\ vodOut = NoFiles
  /\ \E n \in 0..MaxPkgs : \E ts \in [1..n -> EventTimes] :
       /\ totalEvents = n
       /\ packages = [i \in 1..n |-> Pack(ts[i], DEV1, VodCategory)]
       /\ observed = [i \in 1..n |->
                        [deviceId |-> DEV1, eventSize |-> 751,
                         timestamp |-> ts[i], eventCode |-> VodCategory]]
       /\ b0 = IF n = 0 THEN <<>> ELSE (DEV1 :> 749)
       /\ bufferSize = IF n = 0 THEN <<>> ELSE (DEV1 :> 751)
       /\ vodLog = IF vodLogOn \/ eventSequenceLogOnly
                   THEN [i \in 1..n |->
                           EventLogEntry(ts[i], DefaultReceived, DEV1, VodCategory,
                                         msoName(FileTacoma).mso)]
                   ELSE <<>>
       /\ pushed = IF vodLogOn \/ eventSequenceLogOnly
                   THEN [i \in 1..n |->
                           EventLogEntry(ts[i], DefaultReceived, DEV1, VodCategory,
                                         msoName(FileTacoma).mso)]
                   ELSE <<>>
       /\ logEntry = IF n > 0 /\ (vodLogOn \/ eventSequenceLogOnly)
                     THEN EventLogEntry(ts[n], DefaultReceived, DEV1, VodCategory,
                                        msoName(FileTacoma).mso)
                     ELSE NoEntry

NextOutput ==
  \/ PrintOutput
  \/ PrintLog
  \/ PrintSummary

SpecOutput == InitOutput /\ [][NextOutput]_vars

(***************************************************************************)
(* Properties                                                               *)
(***************************************************************************)
\* The payload token of a line: its last token.
PayloadOf(l) == LET t == Split(l) IN t[Len(t)]

\* main is between parseEvent's return (or its send) and the handling of
\* the result.
AfterParse == pc \in {"parsed", "send"}

\* The step that scans and parses one line.
ScanStep == pc = "lines" /\ pc' \in {"parsed", "send"}

\* The step that handles the parsed line.
ObserveStep == pc = "parsed" /\ pc' = "lines"

\* The error entry of the line being handled.
EntryOf(e) == [fileName |-> fileName, lineNo |-> lineNo, line |-> line, err |-> e]

\* The packages and the buffers that the rule of the watermark gives for
\* the initial values init and the events obs: a package iff the running
\* sum would exceed 750, the sum restarting from the triggering size.
RECURSIVE Replay(_, _, _)
Replay(obs, acc, pkgs) ==
  IF obs = <<>> THEN [acc |-> acc, pkgs |-> pkgs]
  ELSE LET e == Head(obs)
           d == e.deviceId
       IN  IF acc[d] + e.eventSize > 750
           THEN Replay(Tail(obs), [acc EXCEPT ![d] = e.eventSize],
                       Append(pkgs, [timestamp |-> e.timestamp, deviceId |-> d,
                                     eventCode |-> e.eventCode]))
           ELSE Replay(Tail(obs), [acc EXCEPT ![d] = acc[d] + e.eventSize], pkgs)

\* C1: for the initial buffer values b0 and the sizes of the decoded,
\* non-suppressed events, a package is emitted exactly when acc + size > 750
\* (a sum of 750 emits nothing), acc restarting from the triggering event's
\* size; the package carries that event's timestamp, deviceId and
\* eventCode.  (Until printOutputFile sorts the list, packages is in
\* emission order.)
C1_PackagesDetermined ==
  pc \in {"files", "lines", "send", "parsed", "output", "crashed"} =>
    LET r == Replay(observed, b0, <<>>)
    IN  /\ packages = r.pkgs
        /\ bufferSize = r.acc

\* Device 1 started at 745: an event of 5 bytes brought it to exactly 750
\* with no package, the next event of 6 bytes emitted one and left 6.
C1_Witness ==
  /\ pc = "lines"
  /\ DEV1 \in DOMAIN b0
  /\ b0[DEV1] = 745
  /\ Len(observed) = 2
  /\ observed[1].eventSize = 5
  /\ observed[2].eventSize = 6
  /\ Len(packages) = 1
  /\ packages[1].eventCode = "'A'Ad Display"
  /\ bufferSize[DEV1] = 6

\* C2: main reads the event-log list for printing only after the worker
\* has appended its last entry and has seen the channel closed.
C2_ReadAfterDrain == logRead => wpc = "done"

DiagnosticNames ==
  {"'B'Button Config", "'U'Unit Ident.", "'X'Status", "'Z'Menu Config."}

\* C3: with suppress on, observing a diagnostic event leaves the package
\* list and every existing buffer as they were (a device seen for the first
\* time gets its drawn initial value, to which the event adds nothing), and
\* no package ever carries a diagnostic event code.
C3_SuppressedDropped ==
  [][ /\ (ObserveStep /\ supress /\ err = NoErr /\ eventCode \in DiagnosticNames) =>
           /\ packages' = packages
           /\ \A d \in DOMAIN bufferSize : bufferSize'[d] = bufferSize[d]
           /\ DOMAIN bufferSize' = DOMAIN bufferSize \cup {deviceId}
           /\ bufferSize'[deviceId] = b0'[deviceId] \/ deviceId \in DOMAIN bufferSize
      /\ supress => \A i \in 1..Len(packages') :
                      packages'[i].eventCode \notin DiagnosticNames
    ]_vars

\* Two lines were read, both diagnostic and suppressed: device 1 holds the
\* value it was created with and nothing was observed or packaged.
C3_Witness ==
  /\ supress
  /\ pc = "lines"
  /\ lineNo = 2
  /\ errorsLog = <<>>
  /\ observed = <<>>
  /\ packages = <<>>
  /\ DOMAIN bufferSize = {DEV1}
  /\ bufferSize[DEV1] = b0[DEV1]

\* C4: a line whose decode fails appends exactly one entry to the error log
\* (file name, 1-based line number, raw line, error); nothing else changes
\* the error log; the scan goes on with the next line.
C4_ErrorSink ==
  [][ /\ (ObserveStep /\ err # NoErr) =>
           errorsLog' = Append(errorsLog, EntryOf(err))
      /\ (ObserveStep /\ err = NoErr) => errorsLog' = errorsLog
      /\ ~ObserveStep => errorsLog' = errorsLog
      /\ pc = "parsed" => pc' \in {"parsed", "lines"}
      /\ ScanStep => lineNo' = lineNo + 1
      /\ (pc = "files" /\ pc' = "lines") => lineNo' = 0
    ]_vars

\* The first line of a file decoded, its second line did not.
C4_Witness ==
  /\ pc = "lines"
  /\ Len(errorsLog) = 1
  /\ errorsLog[1].fileName = FileTacoma
  /\ errorsLog[1].lineNo = 2
  /\ errorsLog[1].line = LineUnknownCode
  /\ errorsLog[1].err = ErrUnknownCode

\* The lines of the input whose decode fails whatever the flags: wrong token
\* count, unknown code, time after now, payload too short to slice.
DecodeFailures ==
  {LineFourTokens, LineOddToken, LineUnknownCode, LineFuture,
   LineEmptyPayload, LineShortPayload}

\* C5: a line whose decode fails leaves the buffer map (its domain too) and
\* the package list unchanged.
C5_FailedLineSkipped ==
  [][ (ObserveStep /\ (err # NoErr \/ line \in DecodeFailures)) =>
         /\ bufferSize' = bufferSize
         /\ packages' = packages
    ]_vars

\* Device 2 has a buffer; then a line of device 1 with a time after now
\* failed and device 1 got no entry.
C5_Witness ==
  /\ pc = "lines"
  /\ DOMAIN bufferSize = {DEV2}
  /\ Len(errorsLog) = 1
  /\ errorsLog[1].lineNo = 2
  /\ errorsLog[1].line = LineFuture

\* C6: no input makes the run abort before the output stage.
C6_NoRunFatal == pc # "crashed"

ShortPayload(l) == Len(Split(l)) \in {2, 3} /\ Len(PayloadOf(l)) < 10

\* C7: a line whose payload has fewer than 10 characters makes parseEvent
\* return an error and push nothing; the line is then recorded in the error
\* log, no package is emitted and the scan goes on.
C7_ShortPayloadRecovered ==
  [][ /\ (ScanStep /\ ShortPayload(line')) =>
           /\ err' # NoErr
           /\ pc' = "parsed"
           /\ sendBuf' = <<>>
      /\ (ObserveStep /\ ShortPayload(line)) =>
           /\ errorsLog' = Append(errorsLog, EntryOf(ErrParserPanic))
           /\ packages' = packages
      /\ (pc = "parsed" /\ ShortPayload(line)) => pc' \in {"parsed", "lines"}
    ]_vars

\* An empty payload and a payload of 4 characters were both recorded, and
\* the run completed.
C7_Witness ==
  /\ pc = "done"
  /\ Len(errorsLog) = 2
  /\ errorsLog[1].line = LineEmptyPayload
  /\ errorsLog[2].line = LineShortPayload
  /\ packages = <<>>

\* C8: for a payload of at least 10 hex characters the outcome is, in this
\* order: wrong token count, unknown code, time after now, success; the
\* received time of a pushed entry is the first of three tokens, else the
\* placeholder.
C8_DecodeOrder ==
  (AfterParse /\ Len(PayloadOf(line)) >= 10 /\ AllHex(PayloadOf(line))) =>
    LET t  == Split(line)
        p  == PayloadOf(line)
        ts == convertToTime(SubSeq(p, 3, 10))
    IN  /\ err = IF Len(t) \notin {2, 3} THEN ErrWrongFormat
                 ELSE IF SubSeq(p, 1, 2) \notin DOMAIN eventNames THEN ErrUnknownCode
                 ELSE IF ts > NowTime THEN ErrWrongDate(ts)
                 ELSE NoErr
        /\ pc = "send" =>
             sendBuf[1].received = IF Len(t) = 3 THEN t[1] ELSE DefaultReceived

\* C9 as stated: "DEV1 only-one-token" is recorded as a wrong-format line.
C9_OddLineMalformed ==
  (AfterParse /\ line = LineOddToken) => err = ErrWrongFormat

\* C9, amended: "DEV1 only-one-token" has two tokens and its code "on" is
\* not in the table: it is recorded with the unknown-code error, emits no
\* package, and the scan goes on.
C9_OddLineUnknownCode ==
  [][ (ObserveStep /\ line = LineOddToken) =>
         /\ err = ErrUnknownCode
         /\ errorsLog' = Append(errorsLog, EntryOf(ErrUnknownCode))
         /\ packages' = packages
         /\ bufferSize' = bufferSize
    ]_vars

\* The odd line was recorded and the run completed.
C9_Witness ==
  /\ pc = "done"
  /\ \E i \in 1..Len(errorsLog) :
       /\ errorsLog[i].line = LineOddToken
       /\ errorsLog[i].err = ErrUnknownCode

\* The event code of the VOD log entry that the payload of a decoded line
\* calls for, "" when it calls for none: "56" is the hex of "V".
VodTag(l) ==
  LET p    == PayloadOf(l)
      code == SubSeq(p, 1, 2)
  IN  IF ~(Len(Split(l)) \in {2, 3} /\ Len(p) >= 10) THEN ""
      ELSE IF code = <<"4","7">> THEN "'G'VOD Category"
      ELSE IF code = <<"4","9">> /\ Len(p) >= 12 /\ SubSeq(p, 11, 12) = <<"5","6">>
           THEN "'I'Info Screen / Type V"
      ELSE IF code = <<"5","6">> /\ Len(p) >= 28 /\ SubSeq(p, 27, 28) = <<"5","6">>
           THEN "'V'Video Playback Session (non- OCAP) / Source V"
      ELSE ""

\* C10: with VOD logging on, a line is pushed as VOD activity exactly when
\* it is a VOD Category event, an Info Screen whose characters 10-12 decode
\* to "V" (tagged "/ Type V"), or a Video Playback Session whose characters
\* 26-28 decode to "V" (tagged "/ Source V").
C10_VodClassification ==
  [][ (ScanStep /\ vodLogOn) =>
         IF VodTag(line') # ""
         THEN /\ pc' = "send"
              /\ Len(sendBuf') = 1
              /\ sendBuf'[1].eventcode = VodTag(line')
              /\ sendBuf'[1].deviceId = deviceId'
         ELSE /\ pc' = "parsed"
              /\ sendBuf' = <<>>
    ]_vars

\* The worker has logged an Info Screen of type V and a Video Playback
\* Session of source V.
C10_Witness ==
  /\ Len(vodLog) = 2
  /\ vodLog[1].eventcode = "'I'Info Screen / Type V"
  /\ vodLog[2].eventcode = "'V'Video Playback Session (non- OCAP) / Source V"

AdDisplay == "'A'Ad Display"

\* C11 as stated: the event "41" + 8 hex characters + "00" has size 5.
C11_AdSizeFive ==
  (AfterParse /\ line = LineAd) => eventSize = 5

\* C11, amended: the event "41" + 8 hex characters of a past time + "00"
\* decodes to Ad Display with size 6 (half of its 12 characters), is not
\* diagnostic, is never pushed as VOD activity, and reaches the buffer
\* simulator whatever the flags; the size of every decoded event is half
\* the character count of its payload.
C11_AdDisplaySizeSix ==
  [][ /\ (ScanStep /\ line' = LineAd) =>
           /\ err' = NoErr
           /\ eventCode' = AdDisplay
           /\ eventSize' = 6
           /\ ~isDiagnosticEvent(eventCode')
           /\ vodLogOn => (pc' = "parsed" /\ sendBuf' = <<>>)
      /\ (ObserveStep /\ line = LineAd) =>
           /\ Len(observed') = Len(observed) + 1
           /\ observed'[Len(observed')].eventSize = 6
           /\ errorsLog' = errorsLog
      /\ (ScanStep /\ err' = NoErr) =>
           2 * eventSize' \in {Len(PayloadOf(line')), Len(PayloadOf(line')) - 1}
    ]_vars

\* With VOD logging on, the Ad Display line reached the buffer with size 6
\* and the worker received nothing.
C11_Witness ==
  /\ vodLogOn
  /\ pc = "lines"
  /\ Len(observed) = 1
  /\ observed[1].eventCode = AdDisplay
  /\ observed[1].eventSize = 6
  /\ vodLog = <<>>
  /\ wpc = "recv"

\* The items are in timestamp order and were written to exactly one file
\* per calendar date, created in date order, each file holding the items of
\* its date and no other, in their order.
RotationOK(items, out) ==
  LET dates == {Date(items[i].timestamp) : i \in 1..Len(items)}
      OfDate(d) == SelectSeq(items, LAMBDA item : Date(item.timestamp) = d)
  IN  /\ \A i \in 1..(Len(items) - 1) : items[i].timestamp <= items[i + 1].timestamp
      /\ Len(out.created) = Cardinality(dates)
      /\ {out.created[i] : i \in 1..Len(out.created)} = dates
      /\ \A i \in 1..(Len(out.created) - 1) : out.created[i] < out.created[i + 1]
      /\ DOMAIN out.files = dates
      /\ \A d \in dates : out.files[d] = OfDate(d)

\* C12: the TimePoints that printEventsPerSecond writes (it writes none
\* when only the event sequence is logged) and the entries that
\* printVodLogEntries writes are written in timestamp order to date-named
\* files, a new file exactly at each change of date: k dates give k files,
\* each with the items of its own date only.
C12_OutputRotation ==
  /\ (pc \in {"printlog", "summary", "done"} /\ ~eventSequenceLogOnly) =>
        RotationOK(orderedEventsPerSecond(packages), epsOut)
  /\ (pc \in {"summary", "done"} /\ vodLogOn) => RotationOK(printedLog, vodOut)

\* Three packages at two dates: two files of TimePoints, one of them with
\* two rows, and two files of VOD entries.
C12_Witness ==
  /\ pc = "done"
  /\ vodLogOn
  /\ ~eventSequenceLogOnly
  /\ Len(epsOut.created) = 2
  /\ \E d \in DOMAIN epsOut.files : Len(epsOut.files[d]) = 2
  /\ Len(vodOut.created) = 2
  /\ Len(printedLog) = 3

\* C13: one TimePoint per bucket key of the packages that pass the filter,
\* counting the packages of that key.  Every package passes with no filter;
\* with primetime or cumulative primetime those of hour 20, 21 or 22 pass;
\* the key is the exact timestamp, and with cumulative primetime the time
\* of day on the synthetic date.
C13_PerSecondBuckets ==
  pc \in {"printlog", "summary", "done"} =>
    LET Passes(t) == (primetimeOnly \/ cummulativePrimetimeOnly) =>
                       (Hour(t) >= 20 /\ Hour(t) < 23)
        Key(t)    == IF cummulativePrimetimeOnly
                     THEN Jan2016 - tzOffset + Clock(t)
                     ELSE t
        passing   == {i \in 1..Len(packages) : Passes(packages[i].timestamp)}
        keys      == {Key(packages[i].timestamp) : i \in passing}
        CountOf(k) == Cardinality({i \in passing : Key(packages[i].timestamp) = k})
    IN  /\ epsStats.total = Cardinality(keys)
        /\ ~eventSequenceLogOnly =>
              LET Rows(d) == {epsOut.files[d][i] : i \in 1..Len(epsOut.files[d])}
                  all == UNION {Rows(d) : d \in DOMAIN epsOut.files}
              IN  all = {[timestamp |-> k, numberOfEvents |-> CountOf(k)] : k \in keys}

\* C14: in a run that logs the full event sequence the buffer simulator is
\* bypassed (no device buffer, no package) and every classified event
\* pushes exactly one entry, which the worker then appends to the log.
C14_SequencePathOnly ==
  [][ eventSequenceLogOnly =>
        /\ bufferSize' = bufferSize
        /\ packages' = packages
        /\ (ScanStep /\ err' = NoErr) => (pc' = "send" /\ Len(sendBuf') = 1)
        /\ (pc = "printlog" /\ pc' = "summary") =>
              Len(printedLog') = Len(observed)
    ]_vars

\* The number of times e occurs in the list.
Occurrences(list, e) == Cardinality({i \in 1..Len(list) : list[i] = e})

\* C15: what a run prints is fixed by its input lines, its drawn buffer
\* values and its flags, whatever the scheduling of the worker: the event
\* log that main prints holds every entry the parsing loop pushed, once, in
\* timestamp order.
C15_SameLogEveryRun ==
  (pc = "done" /\ (vodLogOn \/ eventSequenceLogOnly)) =>
    /\ Len(printedLog) = Len(pushed)
    /\ \A i \in 1..Len(pushed) :
         Occurrences(printedLog, pushed[i]) = Occurrences(pushed, pushed[i])
    /\ \A i \in 1..(Len(printedLog) - 1) :
         printedLog[i].timestamp <= printedLog[i + 1].timestamp

\* C16: the device's buffer entry is created by the handling of its first
\* decoded event (suppressed or not) and by nothing else, it is never
\* removed and never drawn again, and the device of every package has one.
C16_DeviceLifecycle ==
  [][ /\ (ObserveStep /\ err = NoErr) =>
           /\ DOMAIN bufferSize' = DOMAIN bufferSize \cup {deviceId}
           /\ deviceId \in DOMAIN bufferSize =>
                /\ b0' = b0
                /\ bufferSize'[deviceId] =
                     IF supress /\ eventCode \in DiagnosticNames
                     THEN bufferSize[deviceId]
                     ELSE IF bufferSize[deviceId] + eventSize > 750
                          THEN eventSize
                          ELSE bufferSize[deviceId] + eventSize
           /\ deviceId \notin DOMAIN bufferSize =>
                /\ DOMAIN b0' = DOMAIN b0 \cup {deviceId}
                /\ \A d \in DOMAIN b0 : b0'[d] = b0[d]
      /\ ~(ObserveStep /\ err = NoErr) => (bufferSize' = bufferSize /\ b0' = b0)
      /\ DOMAIN b0' = DOMAIN bufferSize'
      /\ \A i \in 1..Len(packages') : packages'[i].deviceId \in DOMAIN bufferSize'
    ]_vars

\* Device 1 was created by a suppressed event and holds its drawn value;
\* device 2 was created by an event that emitted a package at once.
C16_Witness ==
  /\ supress
  /\ pc = "lines"
  /\ lineNo = 2
  /\ DOMAIN bufferSize = {DEV1, DEV2}
  /\ bufferSize[DEV1] = b0[DEV1]
  /\ Len(observed) = 1
  /\ Len(packages) = 1
  /\ packages[1].deviceId = DEV2

\* C17: a line whose decode fails pushes no entry: an entry is sent only by
\* a line that parseEvent returned with no error.
C17_NoEntryFromFailedLine == pc = "send" => err = NoErr

\* C18: the channel is closed after the last file, when no push is left;
\* the worker returns only once the channel is closed; and by the end of
\* the run every push has completed and the worker has returned.
C18_CloseThenWorkerReturns ==
  /\ chanClosed => (pc \notin {"lines", "send", "parsed"} /\ sendBuf = <<>>)
  /\ wpc = "done" => chanClosed
  /\ pc = "done" => wpc = "done"

\* C19: when the worker returns, the list is the sequence of the pushed
\* entries, each once and in the order pushed: only the worker has written
\* it.
C19_WorkerOwnsLog ==
  [][ (wpc # "done" /\ wpc' = "done") => vodLog' = pushed' ]_vars

\* The largest of 750 and the sizes of the device's observed events.
BufferCap(d) ==
  LET sizes == {observed[i].eventSize :
                  i \in {j \in 1..Len(observed) : observed[j].deviceId = d}}
  IN  CHOOSE m \in sizes \cup {750} : \A x \in sizes \cup {750} : x <= m

\* C20: each device's buffer starts in [0, 750) and stays between 0 and the
\* larger of 750 and the largest size observed for the device; it is above
\* 750 only right after a package triggered by one event larger than 750,
\* whose size it then holds.
C20_BufferBounded ==
  \A d \in DOMAIN bufferSize :
    /\ b0[d] >= 0 /\ b0[d] < 750
    /\ bufferSize[d] >= 0
    /\ bufferSize[d] <= BufferCap(d)
    /\ bufferSize[d] > 750 =>
         LET mine == {j \in 1..Len(observed) : observed[j].deviceId = d}
             last == CHOOSE j \in mine : \A k \in mine : k <= j
         IN  /\ mine # {}
             /\ observed[last].eventSize = bufferSize[d]
             /\ observed[last].eventSize > 750
             /\ \E i \in 1..Len(packages) :
                  /\ packages[i].deviceId = d
                  /\ packages[i].timestamp = observed[last].timestamp

\* Device 2 holds 751 bytes, the size of the one event that emitted its
\* package; a smaller event of device 1 stayed under the watermark.
C20_Witness ==
  /\ pc = "lines"
  /\ DOMAIN bufferSize = {DEV1, DEV2}
  /\ bufferSize[DEV2] = 751
  /\ bufferSize[DEV1] <= 750
  /\ Len(packages) >= 1

\* C21: VOD logging changes nothing but the side log: what parseEvent
\* returns for a line (and so the error log, the buffers and the packages
\* that main derives from it) is what it returns for the same line in a run
\* with VOD logging off.
C21_VodPureSideChannel ==
  AfterParse =>
    LET off == parseEventWith(line, mso, FALSE, eventSequenceLogOnly)
    IN  /\ err = off.err
        /\ timestamp = off.timestamp
        /\ deviceId = off.deviceId
        /\ eventSize = off.eventSize
        /\ eventCode = off.eventCode

====
